---- MODULE Spec2Model ----
(***************************************************************************)
(* whisperGUI.py: the Tk front-end of a speech transcriber.  One UI thread *)
(* runs the handlers of the controls and the relay timer                   *)
(* (process_messages); start_transcription spawns one worker thread per    *)
(* run (run_transcription).  The worker sends typed messages through       *)
(* message_queue; it also reads and writes attributes of the application   *)
(* object, which are the shared state modelled here.                       *)
(*                                                                         *)
(* A handler of the UI thread is one action.  The worker thread is cut     *)
(* into steps at the statements that read or write shared state other than *)
(* the queue, so that the UI thread and other workers interleave with it   *)
(* there; the messages a step sends are put on the queue in the order of   *)
(* the code.  Writing config.json is taken to succeed; typing into the     *)
(* model path entry and the ffmpeg installer are left out.                 *)
(*                                                                         *)
(* Spec is every behaviour.  SpecRun is every behaviour of one run, under  *)
(* any lag of the relay.  SpecRuns is the behaviours of MaxRuns runs, which *)
(* may overlap, in which the relay keeps up with the worker.               *)
(***************************************************************************)
EXTENDS Integers, Sequences, FiniteSets, TLC

\* ------------------------------------------------------------------ bounds
\* Runs that the user starts in one behaviour (each start spawns a thread).
MaxRuns == 2
\* Segments the inference library returns for one file.
MaxSegments == 1
\* Progress callbacks the inference library makes in one run.
MaxCallbacks == 1
\* Segments of the longest transcript of SpecExport.
MaxExportSegments == 3

Runs == 1..MaxRuns

\* --------------------------------------------------------------- constants
NORMAL == "normal"
DISABLED == "disabled"

\* The six controls start_transcription disables, in the order of the code.
RunControls ==
    <<"transcribe_btn", "file_btn", "model_size", "accelerate_btn", "browse_btn", "language">>

NoFile == "(no filename attribute)"
AudioFile == "talk.mp3"
NoPath == ""
ModelDir == "models/base"
NoSession == "None"
Absent == "(absent)"

\* Text of the accelerate button: the device indicator.
CpuText == "accelerate"
GpuText == "GPU mode"

VARIABLES
    controls,                   \* state option of each run control
    filename,                   \* self.filename, NoFile before the first selection
    txt_var, srt_var,           \* the output format toggles
    using_cpu,                  \* self.using_cpu
    accelerate_text,            \* text of accelerate_btn
    model_path,                 \* content of the model path entry
    config,                     \* self.config, in memory
    config_file,                \* config.json on disk
    status_var, progress_var,   \* status bar text, progress bar value (scaled)
    result_text,                \* content of the result panel
    result_frame_initialized,
    last_dialog,                \* the modal dialog shown last
    message_queue,              \* self.message_queue
    timer,                      \* the pending root.after call of the relay
    model_cache,                \* keys of self.model_cache
    requests_session,           \* self.requests_session
    worker,                     \* the run_transcription threads, one per run
    runs,                       \* threads started so far
    unapplied                   \* history: messages sent and not yet applied, oldest first

uiVars ==
    <<controls, filename, txt_var, srt_var, using_cpu, accelerate_text, model_path,
      config, config_file, status_var, progress_var, result_text,
      result_frame_initialized, last_dialog>>

vars ==
    <<controls, filename, txt_var, srt_var, using_cpu, accelerate_text, model_path,
      config, config_file, status_var, progress_var, result_text,
      result_frame_initialized, last_dialog, message_queue, timer, model_cache,
      requests_session, worker, runs, unapplied>>

\* ------------------------------------------------------------ progress scale
\* Progress values are rationals (90 + i/n*10); they are kept as integers in
\* units of 1/Scale percent, Scale a common multiple of every segment count.
RECURSIVE Gcd(_, _)
Gcd(a, b) == IF b = 0 THEN a ELSE Gcd(b, a % b)

RECURSIVE LcmUpTo(_)
LcmUpTo(n) == IF n <= 1 THEN 1 ELSE (LcmUpTo(n - 1) * n) \div Gcd(LcmUpTo(n - 1), n)

Scale == LcmUpTo(IF MaxSegments > MaxExportSegments THEN MaxSegments ELSE MaxExportSegments)

Percent(p) == p * Scale

\* ----------------------------------------------------------------- messages
\* A queue item (message_type, message); the payload is spread over the fields
\* so that every item has the same shape: icon/title/text of a notification,
\* text of a status or result line, value of a progress update.
Msg(type, icon, text, err, files, value) ==
    [type |-> type, icon |-> icon, text |-> text, err |-> err, files |-> files,
     value |-> value]

StatusMsg(text) == Msg("status", "", text, "", <<>>, 0)
ProgressMsgZero(value) == Msg("progress", "", "", "", <<>>, 0)
ProgressMsg(value) == Msg("progress", "", "", "", <<>>, value)
NoticeMsgNoFiles(icon, text, err, files) == Msg("message", icon, text, err, <<>>, 0)
NoticeMsg(icon, text, err, files) == Msg("message", icon, text, err, files, 0)
ClearResultMsg == Msg("clear_result", "", "", "", <<>>, 0)
AppendResultMsg(text) == Msg("append_result", "", text, "", <<>>, 0)
UpdateAccelerationMsg == Msg("update_acceleration_button", "", "", "", <<>>, 0)

\* The notification of the fallback to CPU (515, 558).
FallbackNotice == NoticeMsg("warning", "cuda_insufficient", "", <<>>)

\* A modal dialog: the icon it is shown with and its title.
NoDialog == [icon |-> "", text |-> ""]
Dialog(icon, text) == [icon |-> icon, text |-> text]

\* -------------------------------------------------------------- transcripts
\* What model.transcribe returns: segments with start and end, here in
\* milliseconds and whole hundredths of a second, and a text, here its
\* characters; info with the language detected (none: no characters) and the
\* duration.
Segment(start, end, text) == [start |-> start, end |-> end, text |-> text]

SegmentPool ==
    {Segment(0, 400, <<" ", "a">>),
     Segment(59990, 3725400, <<" ", "b", " ">>)}

\* The transcripts of at most max segments taken from pool.
RECURSIVE Transcripts(_, _)
Transcripts(pool, max) ==
    IF max = 0 THEN {<<>>}
    ELSE Transcripts(pool, max - 1) \union
         {Append(t, seg) : t \in {t \in Transcripts(pool, max - 1) : Len(t) = max - 1},
                           seg \in pool}

Languages == {<<>>, <<"e", "n">>}

Info(language, segments) ==
    [language |-> language,
     duration |-> IF segments = <<>> THEN 0 ELSE segments[Len(segments)].end]

NoInfo == Info(<<>>, <<>>)

\* ------------------------------------------------------------- formatting
Digit(d) == <<"0", "1", "2", "3", "4", "5", "6", "7", "8", "9">>[d + 1]

RECURSIVE Digits(_)
Digits(n) == IF n < 10 THEN <<Digit(n)>> ELSE Append(Digits(n \div 10), Digit(n % 10))

RECURSIVE ZeroPad(_, _)
ZeroPad(chars, width) ==
    IF Len(chars) >= width THEN chars ELSE ZeroPad(<<"0">> \o chars, width)

\* The format specifications 02d and 03d: at least width digits.
FormatD(n, width) == ZeroPad(Digits(n), width)

\* format_srt_time (50-62), seconds given in milliseconds.  Line 60 binds the
\* name seconds again, to the integer remainder of divmod, and line 61 takes
\* the fractional part of that integer.
format_srt_time(seconds) ==
    LET whole == seconds \div 1000
        hours == whole \div 3600
        remainder == whole % 3600
        minutes == remainder \div 60
        seconds_again == remainder % 60
        milliseconds == (seconds_again - seconds_again) * 1000
    IN  FormatD(hours, 2) \o <<":">> \o FormatD(minutes, 2) \o <<":">>
            \o FormatD(seconds_again, 2) \o <<",">> \o FormatD(milliseconds, 3)

\* The format specification .2f on a whole number of hundredths, and .1f:
\* the value in hundredths, in tenths (rounded half up).
Fixed2(ms) == ms \div 10

Fixed1(ms) == (ms + 50) \div 100

\* str.strip: the characters without the blanks at either end.
RECURSIVE strip(_)
strip(chars) ==
    IF chars = <<>> THEN chars
    ELSE IF Head(chars) = " " THEN strip(Tail(chars))
    ELSE IF chars[Len(chars)] = " " THEN strip(SubSeq(chars, 1, Len(chars) - 1))
    ELSE chars

\* --------------------------------------------------------------- the files
\* A file of the transcripts folder: whether it was written, and what each
\* write call put into it.  One shape serves both files: a line of the text
\* file has a kind, a block of the subtitle file a number and two times.
NotWritten == [written |-> FALSE, content |-> <<>>]

Written(content) == [written |-> TRUE, content |-> content]

Entry(kind, number, start, end, text) ==
    [kind |-> kind, number |-> number, start |-> start, end |-> end, text |-> text]

\* Lines 718-720: the language, when there is one, and the duration.
TxtHeader(info) ==
    (IF info.language # <<>>
     THEN <<Entry("language", 0, <<>>, <<>>, info.language)>> ELSE <<>>)
        \o <<Entry("duration", Fixed1(info.duration), <<>>, <<>>, <<>>)>>

\* Lines 722-723: a line for each segment.
TxtSegmentsButLast(segments) ==
    [k \in 1..(Len(segments) - 1) |->
        Entry("segment", 0, Digits(Fixed2(segments[k].start)),
              Digits(Fixed2(segments[k].end)), segments[k].text)]

TxtSegments(segments) ==
    [k \in 1..Len(segments) |->
        Entry("segment", 0, Digits(Fixed2(segments[k].start)),
              Digits(Fixed2(segments[k].end)), segments[k].text)]

TxtFile(info, segments) == TxtHeader(info) \o TxtSegments(segments)

\* Lines 732-737: a numbered block for each segment.
SrtFileFromZero(segments) ==
    [k \in 1..Len(segments) |->
        Entry("block", k - 1, format_srt_time(segments[k].start),
              format_srt_time(segments[k].end), strip(segments[k].text))]

SrtFile(segments) ==
    [i \in 1..Len(segments) |->
        Entry("block", i, format_srt_time(segments[i].start),
              format_srt_time(segments[i].end), strip(segments[i].text))]

\* ------------------------------------------------------------------ workers
\* The locals of run_transcription that a later statement reads, its place
\* (pc), and the history of the run: the output formats selected when it was
\* started (requested), whether its key was in the cache (hit), the device
\* of every load attempted (loads), the exception that reached a handler
\* (raised), every message put on the queue (sent) and the files it wrote.
IdleWorker ==
    [pc |-> "idle", device |-> "", model_path |-> "", model_key |-> <<>>,
     supports_progress |-> FALSE, segments |-> <<>>, info |-> NoInfo,
     saved_files |-> <<>>, restored |-> 0,
     requested |-> <<>>, hit |-> FALSE, raised |-> "", loads |-> <<>>, sent |-> <<>>,
     txt_file |-> NotWritten, srt_file |-> NotWritten]

Active(w) == worker[w].pc \notin {"idle", "exited"}

\* -------------------------------------------------------------------- Init
\* __init__ and create_ui: the configuration is whatever config.json holds
\* (nothing on a first start); the model path comes from it or from the local
\* models folder, when there is one.
Init ==
    /\ \E device \in {Absent, "cuda"}, path \in {Absent, ModelDir}, local \in {NoPath, ModelDir} :
        /\ config_file = [device |-> device, path |-> path]
        /\ config = [device |-> device, path |-> path]
        /\ model_path = IF path # Absent THEN path ELSE local
        /\ using_cpu = (device # "cuda")
        /\ accelerate_text = IF device = "cuda" THEN GpuText ELSE CpuText
        /\ controls =
              [c \in {RunControls[k] : k \in 1..Len(RunControls)} |->
                  IF c = "transcribe_btn" THEN DISABLED
                  ELSE IF c = "model_size" /\ (path # Absent \/ local # NoPath) THEN DISABLED
                  ELSE NORMAL]
    /\ filename = NoFile
    /\ txt_var = TRUE
    /\ srt_var = TRUE
    /\ status_var = "ready"
    /\ progress_var = 0
    /\ result_text = <<>>
    /\ result_frame_initialized = FALSE
    /\ last_dialog = NoDialog
    /\ message_queue = <<>>
    /\ timer = "process_messages"
    /\ model_cache = {}
    /\ requests_session = NoSession
    /\ worker = [w \in Runs |-> IdleWorker]
    /\ runs = 0
    /\ unapplied = <<>>

\* ------------------------------------------------------------- the queue
\* Queue.put and Queue.get of the standard library: a first-in-first-out queue.
QueuePut(q, m) == Append(q, m)

\* get: the item taken and the queue it leaves.
QueueGetNewest(q) == [item |-> q[Len(q)], rest |-> SubSeq(q, 1, Len(q) - 1)]

QueueGet(q) == [item |-> Head(q), rest |-> Tail(q)]

RECURSIVE PutAll(_, _)
PutAll(q, msgs) == IF msgs = <<>> THEN q ELSE PutAll(QueuePut(q, Head(msgs)), Tail(msgs))

\* ============================================================ the UI thread
SetControl(c, state) == [controls EXCEPT ![c] = state]

\* save_config: what json.dump leaves in config.json.
save_config(new_config) == new_config

\* toggle_acceleration on the device state d (using_cpu, the text of the
\* button, the configuration in memory and on disk): the handler of the accelerate button, also
\* called by process_messages for an update_acceleration_button message.
toggle_acceleration_unsaved(d) ==
    [using_cpu |-> ~d.using_cpu,
     accelerate_text |-> IF ~d.using_cpu THEN CpuText ELSE GpuText,
     config |-> d.config,
     config_file |-> d.config_file]

toggle_acceleration(d) ==
    LET cpu == ~d.using_cpu
        new_config == [d.config EXCEPT !.device = IF cpu THEN "cpu" ELSE "cuda"]
    IN  [using_cpu |-> cpu,
         accelerate_text |-> IF cpu THEN CpuText ELSE GpuText,
         config |-> new_config,
         config_file |-> save_config(new_config)]

\* The device state as it stands.
DeviceState ==
    [using_cpu |-> using_cpu, accelerate_text |-> accelerate_text, config |-> config,
     config_file |-> config_file]

ToggleAcceleration ==
    /\ controls["accelerate_btn"] = NORMAL
    /\ LET d == toggle_acceleration(DeviceState)
       IN  /\ using_cpu' = d.using_cpu
           /\ accelerate_text' = d.accelerate_text
           /\ config' = d.config
           /\ config_file' = d.config_file
    /\ UNCHANGED <<controls, filename, txt_var, srt_var, model_path, status_var,
                   progress_var, result_text, result_frame_initialized, last_dialog,
                   message_queue, timer, model_cache, requests_session, worker, runs,
                   unapplied>>

\* select_file with a file chosen in the dialog (a cancelled dialog changes nothing).
SelectFile ==
    /\ controls["file_btn"] = NORMAL
    /\ filename' = AudioFile
    /\ controls' = SetControl("transcribe_btn", NORMAL)
    /\ status_var' = "file_selected"
    /\ UNCHANGED <<txt_var, srt_var, using_cpu, accelerate_text, model_path, config,
                   config_file, progress_var, result_text, result_frame_initialized,
                   last_dialog, message_queue, timer, model_cache, requests_session,
                   worker, runs, unapplied>>

\* select_model_dir: a directory that exists is taken over and saved, anything
\* else (the dialog cancelled, a path that does not exist) re-enables the
\* model size selector.
SelectModelDir ==
    /\ controls["browse_btn"] = NORMAL
    /\ \/ /\ model_path' = ModelDir
          /\ controls' = SetControl("model_size", DISABLED)
          /\ config' = [config EXCEPT !.path = ModelDir]
          /\ config_file' = save_config(config')
       \/ /\ controls' = SetControl("model_size", NORMAL)
          /\ UNCHANGED <<model_path, config, config_file>>
    /\ UNCHANGED <<filename, txt_var, srt_var, using_cpu, accelerate_text, status_var,
                   progress_var, result_text, result_frame_initialized, last_dialog,
                   message_queue, timer, model_cache, requests_session, worker, runs,
                   unapplied>>

\* The two output format check buttons; they are never disabled.
ToggleTxt ==
    /\ txt_var' = ~txt_var
    /\ UNCHANGED <<controls, filename, srt_var, using_cpu, accelerate_text, model_path,
                   config, config_file, status_var, progress_var, result_text,
                   result_frame_initialized, last_dialog, message_queue, timer,
                   model_cache, requests_session, worker, runs, unapplied>>

ToggleSrt ==
    /\ srt_var' = ~srt_var
    /\ UNCHANGED <<controls, filename, txt_var, using_cpu, accelerate_text, model_path,
                   config, config_file, status_var, progress_var, result_text,
                   result_frame_initialized, last_dialog, message_queue, timer,
                   model_cache, requests_session, worker, runs, unapplied>>

\* The two preconditions of start_transcription (448, 454).
HasFile == filename # NoFile

\* The output formats selected, in the order of the export.
SelectedFormats ==
    (IF txt_var THEN <<"txt">> ELSE <<>>) \o (IF srt_var THEN <<"srt">> ELSE <<>>)

FormatSelectedAlways == TRUE

FormatSelected == txt_var \/ srt_var

\* start_transcription.  The start control calls it only while enabled; before
\* the first file is selected the control is disabled and the handler is
\* entered only by a direct call, which its first check answers.
StartTranscription ==
    /\ controls["transcribe_btn"] = NORMAL \/ ~HasFile
    /\ \/ /\ ~HasFile
          /\ last_dialog' = Dialog("warning", "select_file")
          /\ UNCHANGED <<controls, progress_var, result_text, result_frame_initialized,
                         worker, runs>>
       \/ /\ HasFile
          /\ ~FormatSelected
          /\ last_dialog' = Dialog("warning", "select_format")
          /\ UNCHANGED <<controls, progress_var, result_text, result_frame_initialized,
                         worker, runs>>
       \/ /\ HasFile
          /\ FormatSelected
          /\ runs < MaxRuns
          /\ controls' = [c \in DOMAIN controls |-> DISABLED]
          /\ result_frame_initialized' = TRUE
          /\ result_text' = <<>>
          /\ progress_var' = 0
          /\ runs' = runs + 1
          /\ worker' = [worker EXCEPT ![runs + 1] =
                            [IdleWorker EXCEPT !.pc = "prepare",
                                               !.requested = SelectedFormats]]
          /\ UNCHANGED last_dialog
    /\ UNCHANGED <<filename, txt_var, srt_var, using_cpu, accelerate_text, model_path,
                   config, config_file, status_var, message_queue, timer, model_cache,
                   requests_session, unapplied>>

\* ------------------------------------------------------------- the relay
\* The message types process_messages has a branch for (764-778).
HandledTypes ==
    {"status", "progress", "message", "clear_result", "append_result",
     "update_acceleration_button"}

\* One turn of the loop of process_messages on the UI state u: the branch of
\* the type of m.  A type without a branch is taken from the queue and
\* dropped, and so is a result message while there is no result panel.
\* u.applied lists the messages a branch has applied.
ApplyMessage(u, m) ==
    IF m.type \notin HandledTypes THEN u
    ELSE LET v == [u EXCEPT !.applied = Append(@, m)]
         IN  CASE m.type = "status" -> [v EXCEPT !.status_var = m.text]
               [] m.type = "progress" -> [v EXCEPT !.progress_var = m.value]
               [] m.type = "message" ->
                    [v EXCEPT !.last_dialog =
                        Dialog(IF m.icon = "info" THEN "info" ELSE "error", m.text)]
               [] m.type = "clear_result" ->
                    IF result_frame_initialized THEN [v EXCEPT !.result_text = <<>>] ELSE u
               [] m.type = "append_result" ->
                    IF result_frame_initialized
                    THEN [v EXCEPT !.result_text = Append(@, m.text)] ELSE u
               [] m.type = "update_acceleration_button" ->
                    [v EXCEPT !.device = toggle_acceleration(@)]

\* The loop of process_messages: while the queue is not empty, get and apply.
RECURSIVE Drain(_, _)
Drain(u, q) ==
    IF q = <<>> THEN u
    ELSE CHOOSE drained \in {Drain(ApplyMessage(u, got.item), got.rest) :
                                 got \in {QueueGet(q)}} : TRUE

IsPrefix(p, s) == Len(p) <= Len(s) /\ SubSeq(s, 1, Len(p)) = p

\* Line 780: the timer is set to call process_messages again.
after_nothing == "(no timer)"

after_process_messages == "process_messages"

\* process_messages, called by the timer: every message in the queue is
\* applied, then the timer is set again (780).  A call that finds the queue
\* empty changes nothing.
ProcessMessages ==
    /\ timer = "process_messages"
    /\ message_queue # <<>>
    /\ LET u == Drain([status_var |-> status_var, progress_var |-> progress_var,
                       result_text |-> result_text, last_dialog |-> last_dialog,
                       device |-> DeviceState, applied |-> <<>>],
                      message_queue)
       IN  /\ status_var' = u.status_var
           /\ progress_var' = u.progress_var
           /\ result_text' = u.result_text
           /\ last_dialog' = u.last_dialog
           /\ using_cpu' = u.device.using_cpu
           /\ accelerate_text' = u.device.accelerate_text
           /\ config' = u.device.config
           /\ config_file' = u.device.config_file
           /\ unapplied' =
                 IF IsPrefix(u.applied, unapplied)
                 THEN SubSeq(unapplied, Len(u.applied) + 1, Len(unapplied))
                 ELSE unapplied
    /\ message_queue' = <<>>
    /\ timer' = after_process_messages
    /\ UNCHANGED <<controls, filename, txt_var, srt_var, model_path,
                   result_frame_initialized, model_cache, requests_session, worker, runs>>

\* ======================================================= the worker thread
\* run_transcription, thread w.  The self.* attributes it reads or writes are
\* the shared variables.
ModelSize == "base"

\* UI state no statement of the worker writes.
uiKept ==
    <<filename, txt_var, srt_var, accelerate_text, model_path, config, config_file,
      status_var, progress_var, result_text, result_frame_initialized, last_dialog>>

\* send_message for each of msgs, in order, by thread w, which goes on as rec.
Emit(w, msgs, rec) ==
    /\ message_queue' = PutAll(message_queue, msgs)
    /\ unapplied' = unapplied \o msgs
    /\ worker' = [worker EXCEPT ![w] = [rec EXCEPT !.sent = worker[w].sent \o msgs]]

Goto(w, rec) ==
    /\ worker' = [worker EXCEPT ![w] = rec]
    /\ UNCHANGED <<message_queue, unapplied>>

\* Lines 684-688: the handler of the outer try reports the exception.
OuterHandlerNoText(err) == <<NoticeMsg("error", "fatal_error", "", <<>>), StatusMsg("fatal_error")>>

OuterHandler(err) == <<NoticeMsg("error", "fatal_error", err, <<>>), StatusMsg("fatal_error")>>

\* Lines 678-682: the handler of the inner try, which only the callback path
\* enters (652), reports it first and raises it again.
InnerHandler(err) == <<NoticeMsg("error", "error", err, <<>>), StatusMsg("transcription_failed")>>

\* Lines 752-756: the handler in save_transcription_results, likewise.
SaveHandlerSilent(err) == <<StatusMsg("save_failed")>>

SaveHandler(err) == <<NoticeMsg("error", "save_failed", err, <<>>), StatusMsg("save_failed")>>

\* The worker as it enters the finally block with exception err.
Raised(rec, err) == [rec EXCEPT !.pc = "finally", !.raised = err]

\* Lines 483-499: the request is read from the UI state, the first status and
\* progress are sent.
Prepare(w) ==
    /\ worker[w].pc = "prepare"
    /\ Emit(w,
            <<StatusMsg(IF model_path # NoPath THEN "loading_model" ELSE "downloading_model"),
              ProgressMsg(Percent(10))>>,
            [worker[w] EXCEPT !.pc = "check_cache",
                              !.device = IF using_cpu THEN "cpu" ELSE "cuda",
                              !.model_path = model_path])
    /\ UNCHANGED <<controls, using_cpu, uiKept, timer, model_cache, requests_session, runs>>

\* Line 503: model_key not in self.model_cache.
NeverCached(key, cache) == TRUE

NotCached(key, cache) == key \notin cache

\* Lines 502-503: the cache key and the cache lookup.
CheckCache(w) ==
    /\ worker[w].pc = "check_cache"
    /\ LET key == <<ModelSize, worker[w].device, worker[w].model_path>>
       IN  Goto(w, [worker[w] EXCEPT !.model_key = key,
                                     !.hit = key \in model_cache,
                                     !.pc = IF NotCached(key, model_cache)
                                            THEN "load" ELSE "transcribe"])
    /\ UNCHANGED <<controls, using_cpu, uiKept, timer, model_cache, requests_session, runs>>

\* What the construction of a WhisperModel can do: succeed, raise the runtime
\* error with the insufficient-driver marker, raise anything else.
LoadOutcomes == {"loaded", "driver_insufficient", "load_error"}

\* Lines 534-542: the session of a download, created when there is none.
SessionForLoad(path) ==
    IF path = NoPath /\ requests_session = NoSession THEN "open" ELSE requests_session

\* The session argument of a load (551, 570): the session as it is for a
\* download, none for a load from a local path.
SessionArgument(path, session) == IF path = NoPath THEN session ELSE NoSession

\* Lines 505-509 (local path) and 530-552 (download): the first load.
Load(w) ==
    /\ worker[w].pc = "load"
    /\ requests_session' = SessionForLoad(worker[w].model_path)
    /\ \E outcome \in LoadOutcomes :
        LET tried == [worker[w] EXCEPT !.loads =
                                    Append(@, [device |-> worker[w].device,
                                               outcome |-> outcome,
                                               session |-> SessionArgument(worker[w].model_path,
                                                                           requests_session')])]
        IN  \/ /\ outcome = "loaded"
               /\ model_cache' = model_cache \union {worker[w].model_key}
               /\ Goto(w, [tried EXCEPT !.pc = "transcribe"])
            \/ /\ outcome = "driver_insufficient"
               /\ Goto(w, [tried EXCEPT !.pc = "fallback"])
               /\ UNCHANGED model_cache
            \/ /\ outcome = "load_error"
               /\ Emit(w, OuterHandler(outcome), Raised(tried, outcome))
               /\ UNCHANGED model_cache
    /\ UNCHANGED <<controls, using_cpu, uiKept, timer, runs>>

\* Lines 512-520 and 555-563: the fallback is announced, the device is forced
\* and the indicator is told to follow.
Fallback(w) ==
    /\ worker[w].pc = "fallback"
    /\ using_cpu' = TRUE
    /\ Emit(w,
            <<FallbackNotice,
              StatusMsg("cuda_insufficient_switching"),
              UpdateAccelerationMsg>>,
            [worker[w] EXCEPT !.pc = "retry",
                              !.model_key = <<ModelSize, "cpu", worker[w].model_path>>])
    /\ UNCHANGED <<controls, uiKept, timer, model_cache, requests_session, runs>>

\* The device of the second load (device="cpu" at 522 and 566).
RetryDeviceSame(device) == device

RetryDevice(device) == "cpu"

\* Lines 521-523 and 564-571: the one retry; whatever it raises leaves the
\* handler of the first failure and reaches the handler at 684.
Retry(w) ==
    /\ worker[w].pc = "retry"
    /\ \E outcome \in LoadOutcomes :
        LET tried == [worker[w] EXCEPT !.loads =
                                    Append(@, [device |-> RetryDevice(worker[w].device),
                                               outcome |-> outcome,
                                               session |-> SessionArgument(worker[w].model_path,
                                                                           requests_session)])]
        IN  \/ /\ outcome = "loaded"
               /\ model_cache' = model_cache \union {worker[w].model_key}
               /\ Goto(w, [tried EXCEPT !.pc = "transcribe"])
            \/ /\ outcome # "loaded"
               /\ Emit(w, OuterHandler(outcome), Raised(tried, outcome))
               /\ UNCHANGED model_cache
    /\ UNCHANGED <<controls, using_cpu, uiKept, timer, requests_session, runs>>

\* The fractions the library reports to the callback, in hundredths.
CallbackFractions == {50, 100}

\* The reports of one run: fractions that do not go down.
RECURSIVE CallbackRuns(_)
CallbackRuns(n) ==
    IF n = 0 THEN {<<>>}
    ELSE CallbackRuns(n - 1) \union
         {Append(r, f) : r \in {r \in CallbackRuns(n - 1) : Len(r) = n - 1},
                         f \in CallbackFractions}

NonDecreasing(r) == \A k \in 1..(Len(r) - 1) : r[k] <= r[k + 1]

\* update_progress (782-783): the fraction times 100.
update_progress(hundredths) == ProgressMsg(Percent(hundredths))

\* Line 637: progress = 90 + (i / total_segments) * 10.
LoopProgressFromZero(i, total_segments) ==
    Percent(90) + ((i - 1) * Percent(10)) \div total_segments

LoopProgress(i, total_segments) == Percent(90) + (i * Percent(10)) \div total_segments

\* Lines 610-623 and 654-668: what is sent once the segments are collected;
\* the callback path sends a status first.
ResultMessages(supports_progress, has_language) ==
    (IF supports_progress THEN <<StatusMsg("processing")>> ELSE <<>>)
        \o <<ProgressMsg(Percent(90)), ClearResultMsg>>
        \o (IF has_language THEN <<AppendResultMsg("language")>> ELSE <<>>)
        \o <<AppendResultMsg("duration")>>

\* Lines 577-641 and 649-673: the model is taken from the cache, the analysis
\* is announced, transcribe is called, with the progress callback when its
\* signature has one, the segments are collected and the results announced.
\* The step ends at the call of save_transcription_results or in the handler
\* of whatever was raised: by transcribe, by list(segments), which is outside
\* the inner try on both paths, or by makedirs, which is inside it on the
\* callback path and comes before the loop on the other.
TranscribeWith(w, supports, reports, segments, language, outcome) ==
    /\ worker[w].pc = "transcribe"
    /\ NonDecreasing(reports)
    /\ ~supports => reports = <<>>
    /\ outcome = "transcribe_error" => reports = <<>>
    /\ LET n == Len(segments)
           announced == <<StatusMsg("analyzing"), ProgressMsg(Percent(20))>>
           reported == [k \in 1..Len(reports) |-> update_progress(reports[k])]
           results == ResultMessages(supports, language # <<>>)
           loop == [i \in 1..n |-> ProgressMsg(LoopProgress(i, n))]
           rec == [worker[w] EXCEPT !.supports_progress = supports]
       IN  CASE outcome = "transcribe_error" ->
                  Emit(w, announced \o OuterHandler(outcome), Raised(rec, outcome))
             [] outcome = "segments_error" ->
                  Emit(w, announced \o reported \o OuterHandler(outcome),
                       Raised(rec, outcome))
             [] outcome = "makedirs_error" ->
                  Emit(w, announced \o reported \o results
                          \o (IF supports THEN InnerHandler(outcome) ELSE <<>>)
                          \o OuterHandler(outcome),
                       Raised(rec, outcome))
             [] outcome = "ok" ->
                  Emit(w, announced \o reported \o results
                          \o (IF supports THEN <<>> ELSE loop),
                       [rec EXCEPT !.pc = "save_txt",
                                   !.segments = segments,
                                   !.info = Info(language, segments)])
    /\ UNCHANGED <<controls, using_cpu, uiKept, timer, model_cache, requests_session, runs>>

\* The analysis of a file of at most MaxSegments segments.
Transcribe(w) ==
    \E supports \in BOOLEAN, reports \in CallbackRuns(MaxCallbacks),
       segments \in Transcripts({Segment(0, 400, <<" ", "a">>)}, MaxSegments),
       language \in Languages,
       outcome \in {"ok", "transcribe_error", "segments_error", "makedirs_error"} :
        /\ outcome # "ok" => (segments = <<>> /\ language # <<>>)
        /\ TranscribeWith(w, supports, reports, segments, language, outcome)

\* The analysis of a file of at most MaxExportSegments segments, of several
\* lengths and texts.
TranscribeLong(w) ==
    \E supports \in BOOLEAN,
       segments \in Transcripts(SegmentPool, MaxExportSegments),
       language \in Languages :
        TranscribeWith(w, supports, <<>>, segments, language, "ok")

\* IOError in save_transcription_results goes through its handler, through
\* the inner handler on the callback path, and through the outer handler.
SaveFailed(w) ==
    Emit(w,
         SaveHandler("io_error")
             \o (IF worker[w].supports_progress THEN InnerHandler("io_error") ELSE <<>>)
             \o OuterHandler("io_error"),
         Raised(worker[w], "io_error"))

\* Lines 742-750: the completion notification with the files saved; the
\* function returns and the run leaves its try blocks (646, 676).
Completed(w, saved_files, srt_file) ==
    Emit(w,
         <<NoticeMsg("info", "completed", "", saved_files),
           StatusMsg("completed_saved"),
           ProgressMsg(Percent(100))>>,
         [worker[w] EXCEPT !.pc = "finally", !.saved_files = saved_files,
                           !.srt_file = srt_file])

\* save_transcription_results, lines 714-726: the text file, when its toggle
\* is on at this moment; the write succeeds or raises IOError.
SaveTxt(w) ==
    /\ worker[w].pc = "save_txt"
    /\ IF txt_var
       THEN \E written \in BOOLEAN :
              IF written
              THEN Goto(w, [worker[w] EXCEPT
                              !.pc = "save_srt",
                              !.saved_files = Append(@, "txt"),
                              !.txt_file = Written(TxtFile(worker[w].info, worker[w].segments))])
              ELSE SaveFailed(w)
       ELSE Goto(w, [worker[w] EXCEPT !.pc = "save_srt"])
    /\ UNCHANGED <<controls, using_cpu, uiKept, timer, model_cache, requests_session, runs>>

\* Lines 728-750: the subtitle file, likewise, and the completion.
SaveSrt(w) ==
    /\ worker[w].pc = "save_srt"
    /\ IF srt_var
       THEN \E written \in BOOLEAN :
              IF written
              THEN Completed(w, Append(worker[w].saved_files, "srt"),
                             Written(SrtFile(worker[w].segments)))
              ELSE SaveFailed(w)
       ELSE Completed(w, worker[w].saved_files, NotWritten)
    /\ UNCHANGED <<controls, using_cpu, uiKept, timer, model_cache, requests_session, runs>>

\* The controls the finally block sets to NORMAL (692-697), in its order.
RestoredControlsButStart ==
    <<"file_btn", "model_size", "accelerate_btn", "browse_btn", "language">>

RestoredControls == RunControls

\* Lines 692-697 in two steps: the start control (692), then the others
\* (693-697).  The locals and the history of the body are dropped at the first.
RestoreControl(w) ==
    /\ worker[w].pc = "finally"
    /\ LET k == worker[w].restored + 1
           others == {RestoredControls[i] : i \in 2..Len(RestoredControls)}
       IN  /\ controls' =
                 IF k = 1 THEN SetControl(RestoredControls[1], NORMAL)
                 ELSE [c \in DOMAIN controls |-> IF c \in others THEN NORMAL ELSE controls[c]]
           /\ Goto(w, [IdleWorker EXCEPT !.restored = k,
                                         !.pc = IF k = 2 THEN "release" ELSE "finally"])
    /\ UNCHANGED <<using_cpu, uiKept, timer, model_cache, requests_session, runs>>

\* Line 701: requests.Session.close.
CloseSessionSkipped(session) == session

CloseSession(session) == IF session # NoSession THEN "closed" ELSE session

\* Lines 703-706: "for model in self.model_cache.values(): del model" unbinds
\* the loop variable; the dictionary keeps every entry.
ReleaseModels(cache) == cache

\* Lines 699-706: the resources are released; the function is left (an
\* exception raised again at 688 goes on from here) and the thread ends.
Release(w) ==
    /\ worker[w].pc = "release"
    /\ requests_session' = CloseSession(requests_session)
    /\ model_cache' = ReleaseModels(model_cache)
    /\ Goto(w, [IdleWorker EXCEPT !.pc = "exited"])
    /\ UNCHANGED <<controls, using_cpu, uiKept, timer, runs>>

WorkerStep(w) ==
    \/ Prepare(w)
    \/ CheckCache(w)
    \/ Load(w)
    \/ Fallback(w)
    \/ Retry(w)
    \/ Transcribe(w)
    \/ SaveTxt(w)
    \/ SaveSrt(w)
    \/ RestoreControl(w)
    \/ Release(w)

\* What the user does with the controls, the start control apart.
UserStep ==
    \/ SelectFile
    \/ SelectModelDir
    \/ ToggleAcceleration
    \/ ToggleTxt
    \/ ToggleSrt

Next ==
    \/ UserStep
    \/ StartTranscription
    \/ ProcessMessages
    \/ \E w \in Runs : WorkerStep(w)

Spec == Init /\ [][Next]_vars

Quiet == \A w \in Runs : ~Active(w)

\* The history of the body of run w is at hand: up to the first step of the
\* finally block.
InBody(w) == Active(w) /\ worker[w].restored = 0

\* The behaviours of one run: every interleaving of the worker, the user and
\* the relay up to the second start, the user leaving the output formats as
\* they are while the body of the run goes on (SpecExport has those changes).
FirstRun == runs' <= 1

NextRun ==
    \/ SelectFile
    \/ SelectModelDir
    \/ ToggleAcceleration
    \/ (\A w \in Runs : ~InBody(w)) /\ ToggleTxt
    \/ (\A w \in Runs : ~InBody(w)) /\ ToggleSrt
    \/ StartTranscription /\ FirstRun
    \/ ProcessMessages
    \/ \E w \in Runs : WorkerStep(w)

SpecRun == Init /\ [][NextRun]_vars

\* The behaviours in which the relay keeps up with the worker: a tick of its
\* timer (every 100 ms, line 780) comes before anything else happens once
\* there are messages in the queue, and the user leaves both output formats
\* selected.  The relay writes the status, the progress, the result panel,
\* the dialog and the device state; the controls, the cache, the session and
\* the place of a worker do not depend on it, nor on which files are saved.
NextRuns ==
    \/ ProcessMessages
    \/ message_queue = <<>> /\ SelectFile
    \/ message_queue = <<>> /\ SelectModelDir
    \/ message_queue = <<>> /\ ToggleAcceleration
    \/ message_queue = <<>> /\ StartTranscription
    \/ \E w \in Runs :
          \/ message_queue = <<>> /\ Prepare(w)
          \/ message_queue = <<>> /\ CheckCache(w)
          \/ message_queue = <<>> /\ Load(w)
          \/ message_queue = <<>> /\ Fallback(w)
          \/ message_queue = <<>> /\ Retry(w)
          \/ message_queue = <<>> /\ Transcribe(w)
          \/ message_queue = <<>> /\ SaveTxt(w)
          \/ message_queue = <<>> /\ SaveSrt(w)
          \/ message_queue = <<>> /\ RestoreControl(w)
          \/ message_queue = <<>> /\ Release(w)

SpecRuns == Init /\ [][NextRuns]_vars

\* The behaviours of one run whose output formats the user may change at any
\* moment, over transcripts of up to MaxExportSegments segments.  The relay
\* is left out: what the worker sends and writes does not depend on it.
NextExport ==
    \/ runs = 0 /\ SelectFile
    \/ ToggleTxt
    \/ ToggleSrt
    \/ StartTranscription /\ FirstRun
    \/ \E w \in Runs :
          \/ Prepare(w)
          \/ CheckCache(w)
          \/ Load(w)
          \/ Fallback(w)
          \/ Retry(w)
          \/ TranscribeLong(w)
          \/ SaveTxt(w)
          \/ SaveSrt(w)
          \/ RestoreControl(w)
          \/ Release(w)

SpecExport == Init /\ [][NextExport]_vars

\* The behaviours of one run in which the user only selects the file and
\* starts, with the scheduling the program runs under: the Tk main loop calls
\* process_messages 100 ms after it was last set (126, 780), and the thread
\* of a run (476-478) goes on as long as it has a step to take.
NextLive ==
    \/ runs = 0 /\ SelectFile
    \/ StartTranscription /\ FirstRun
    \/ ProcessMessages
    \/ \E w \in Runs : WorkerStep(w)

SpecLive ==
    /\ Init
    /\ [][NextLive]_vars
    /\ WF_vars(ProcessMessages)
    /\ \A w \in Runs : WF_vars(WorkerStep(w))

\* ================================================================== claims
\* The first load of run w raised the insufficient-driver error and the
\* handler of it has sent its messages.
FellBack(w) ==
    /\ InBody(w)
    /\ Len(worker[w].loads) >= 1
    /\ worker[w].loads[1].outcome = "driver_insufficient"
    /\ worker[w].pc # "fallback"

Count(msgs, m) == Cardinality({k \in 1..Len(msgs) : msgs[k] = m})

\* C1: at most one transcription run is active at any time: no second worker
\* is spawned before the first has finished all of its work, the release of
\* the session and of the cache included.
C1_OneActiveRun == Cardinality({w \in Runs : Active(w)}) <= 1

\* C2: the worker thread never touches UI state: no step of run_transcription
\* changes the status, the progress, the result panel, the dialog, the state
\* of a control, the device selection or its indicator.
C2_WorkerLeavesUiState == [][(\E w \in Runs : WorkerStep(w)) => UNCHANGED uiVars]_vars

\* C3: a load that fails with the insufficient-driver marker is retried
\* exactly once, on CPU, and the fallback notification is sent exactly once;
\* a retry that fails is not retried, and a load that fails otherwise is not
\* retried at all.
C3_OneCpuRetry ==
    \A w \in Runs :
        LET loads == worker[w].loads
            notices == Count(worker[w].sent, FallbackNotice)
        IN  /\ Len(loads) <= 2
            /\ notices = IF FellBack(w) THEN 1 ELSE 0
            /\ (FellBack(w) /\ worker[w].pc # "retry") =>
                   (Len(loads) = 2 /\ loads[2].device = "cpu")
            /\ Len(loads) = 2 => loads[1].outcome = "driver_insufficient"
            /\ (Len(loads) = 2 /\ loads[2].outcome # "loaded") => worker[w].pc = "finally"

C3_RetryFailed ==
    \E w \in Runs :
        /\ FellBack(w)
        /\ Len(worker[w].loads) = 2
        /\ worker[w].loads[1].device = "cuda"
        /\ worker[w].loads[2].outcome = "driver_insufficient"

\* C4: after a fallback, once the relay has applied the messages the fallback
\* sent (no command for the device indicator is left in the queue), the
\* device selection is CPU: using_cpu is true, the indicator shows CPU mode
\* and the configuration says "cpu".
C4_FallbackForcesCpu ==
    \A w \in Runs :
        (FellBack(w) /\ Count(message_queue, UpdateAccelerationMsg) = 0) =>
            (using_cpu /\ accelerate_text = CpuText /\ config.device = "cpu")

\* C5: after a run has ended, however it ended, each of the six controls
\* start_transcription disabled is enabled again: with no run active, a
\* control is disabled only for a reason that is not a run: the start control
\* because no file was ever selected, the model size selector because a model
\* directory is set.
C5_ControlsRestored ==
    \A c \in DOMAIN controls :
        controls[c] = DISABLED =>
            \/ ~Quiet
            \/ c = "transcribe_btn" /\ ~HasFile
            \/ c = "model_size" /\ model_path # NoPath

C5_RunEndedControlsEnabled ==
    /\ Quiet
    /\ \A w \in Runs : worker[w].pc = "exited"
    /\ \A c \in DOMAIN controls : controls[c] = NORMAL

\* C6: after a run has ended the model cache holds no entry.
C6_CacheCleared == (Quiet /\ runs > 0) => model_cache = {}

\* C7: after a run has ended the network session is closed: with no run
\* active, no session is open.
C7_SessionClosed == Quiet => requests_session # "open"

C7_RunEndedSessionClosed ==
    /\ Quiet
    /\ \A w \in Runs : worker[w].pc = "exited"
    /\ requests_session = "closed"

\* C8: a call of start_transcription with no file selected, or with both
\* output formats off, spawns no worker, disables no control, leaves the
\* progress and the result panel alone and changes nothing but the dialog,
\* which is a warning.
C8_RejectedStartChangesNothing ==
    [][(StartTranscription /\ (filename = NoFile \/ (~txt_var /\ ~srt_var))) =>
          /\ UNCHANGED <<controls, filename, txt_var, srt_var, using_cpu, accelerate_text,
                          model_path, config, config_file, status_var, progress_var,
                          result_text, result_frame_initialized, message_queue, timer,
                          model_cache, requests_session, worker, runs, unapplied>>
          /\ last_dialog'.icon = "warning"]_vars

C8_StartRejectedNoFormat ==
    /\ last_dialog = Dialog("warning", "select_format")
    /\ ~txt_var
    /\ ~srt_var
    /\ runs = 0

\* C9: an exception raised in the worker, a load failure without the marker
\* included, takes the run to the finally block of a successful run with an
\* error notification that carries the error text and the failure status as
\* the last messages sent; no completion notification follows an error
\* notification.
C9_ExceptionFailsRun ==
    \A w \in Runs :
        LET sent == worker[w].sent
            err == worker[w].raised
        IN  /\ err # "" =>
                  /\ worker[w].pc = "finally"
                  /\ Len(sent) >= 2
                  /\ sent[Len(sent) - 1] = NoticeMsg("error", "fatal_error", err, <<>>)
                  /\ sent[Len(sent)] = StatusMsg("fatal_error")
            /\ \A i, j \in 1..Len(sent) :
                  (i < j /\ sent[i].type = "message" /\ sent[i].icon = "error") =>
                      ~(sent[j].type = "message" /\ sent[j].text = "completed")

C9_LoadFailedNoRetry ==
    \E w \in Runs :
        /\ worker[w].raised = "load_error"
        /\ Len(worker[w].loads) = 1
        /\ worker[w].pc = "finally"

\* C10: the relay is first-in-first-out and lossless: the messages sent and
\* not yet applied, oldest first, are the content of the queue, so that each
\* message is applied once, in the order sent, and none of any type is
\* dropped.
C10_RelayFifoLossless == unapplied = message_queue

C10_FallbackMessagesApplied ==
    \E w \in Runs :
        /\ FellBack(w)
        /\ worker[w].pc = "finally"
        /\ message_queue = <<>>
        /\ unapplied = <<>>


\* C11: the relay timer never stops: process_messages is always set to be
\* called again, each call of it leaves the queue empty (any other step only
\* adds to the queue), and, the timer firing and the worker going on, every
\* message a worker has sent is applied in the end.
C11_RelayNeverStops ==
    /\ [](timer = "process_messages")
    /\ [][message_queue' = <<>> \/ IsPrefix(message_queue, message_queue')]_vars
    /\ (unapplied # <<>>) ~> (unapplied = <<>>)

\* The body of a run is over and every message it sent has been applied, its
\* last notification included.
C11_RunMessagesAllApplied ==
    \E w \in Runs :
        /\ InBody(w)
        /\ worker[w].pc = "finally"
        /\ worker[w].sent # <<>>
        /\ unapplied = <<>>
        /\ last_dialog # NoDialog
\* The time of d milliseconds as HH:MM:SS,mmm: hours, minutes and seconds of
\* d on two digits at least, the milliseconds below the second on three.
ClockTime(d) ==
    FormatD(d \div 3600000, 2) \o <<":">> \o FormatD((d \div 60000) % 60, 2) \o <<":">>
        \o FormatD((d \div 1000) % 60, 2) \o <<",">> \o FormatD(d % 1000, 3)

\* C12: format_srt_time gives HH:MM:SS,mmm with the milliseconds of the
\* duration: every time written to the subtitle file is the clock time of
\* the start or the end of its segment.
C12_SrtTimesCarryMilliseconds ==
    \A w \in Runs :
        worker[w].srt_file.written =>
            \A k \in 1..Len(worker[w].srt_file.content) :
                /\ worker[w].srt_file.content[k].start = ClockTime(worker[w].segments[k].start)
                /\ worker[w].srt_file.content[k].end = ClockTime(worker[w].segments[k].end)
\* C13: the request of a run is fixed when it is started: the files a run
\* has exported are those of the output formats selected at the start.
C13_ExportsFormatsOfTheStart ==
    \A w \in Runs :
        (InBody(w) /\ worker[w].pc = "finally" /\ worker[w].raised = "")
            => worker[w].saved_files = worker[w].requested
\* The places in what run w has sent of its completion notifications.
Completions(w) ==
    {k \in 1..Len(worker[w].sent) :
        worker[w].sent[k].type = "message" /\ worker[w].sent[k].text = "completed"}

\* The files written by run w, in the order of the export.
FilesWritten(w) ==
    (IF worker[w].txt_file.written THEN <<"txt">> ELSE <<>>)
        \o (IF worker[w].srt_file.written THEN <<"srt">> ELSE <<>>)

\* C14: a run whose export completed has sent exactly one completion
\* notification, a run whose export did not has sent none, and the
\* notification lists the files the run has written, each once and no other.
C14_OneCompletionListsFilesWritten ==
    \A w \in Runs :
        InBody(w) =>
            /\ Cardinality(Completions(w)) =
                  (IF worker[w].pc = "finally" /\ worker[w].raised = "" THEN 1 ELSE 0)
            /\ \A k \in Completions(w) : worker[w].sent[k].files = FilesWritten(w)

\* The export of a run completed with the text file alone, and the
\* notification lists it alone.
C14_CompletedWithTextOnly ==
    \E w \in Runs :
        /\ InBody(w)
        /\ worker[w].pc = "finally"
        /\ worker[w].raised = ""
        /\ worker[w].txt_file.written
        /\ ~worker[w].srt_file.written
        /\ \E k \in Completions(w) : worker[w].sent[k].files = <<"txt">>
\* C15: the text file begins with the language line, when there is a
\* language, and the duration line, and goes on with one line for each
\* segment, in the order of the segments: line k after the header carries the
\* times and the text of segment k.
C15_TxtLinePerSegmentInOrder ==
    \A w \in Runs :
        worker[w].txt_file.written =>
            LET content == worker[w].txt_file.content
                segments == worker[w].segments
                info == worker[w].info
                header == IF info.language # <<>> THEN 2 ELSE 1
            IN  /\ Len(content) = header + Len(segments)
                /\ info.language # <<>> =>
                      (content[1].kind = "language" /\ content[1].text = info.language)
                /\ content[header].kind = "duration"
                /\ content[header].number = Fixed1(info.duration)
                /\ \A k \in 1..Len(segments) :
                      /\ content[header + k].kind = "segment"
                      /\ content[header + k].text = segments[k].text
                      /\ content[header + k].start = Digits(Fixed2(segments[k].start))
                      /\ content[header + k].end = Digits(Fixed2(segments[k].end))

\* A text file was written for a language and MaxExportSegments segments
\* that differ from their neighbours.
C15_TxtWrittenForLongTranscript ==
    \E w \in Runs :
        /\ worker[w].txt_file.written
        /\ worker[w].info.language # <<>>
        /\ Len(worker[w].segments) = MaxExportSegments
        /\ \A k \in 1..(MaxExportSegments - 1) :
              worker[w].segments[k] # worker[w].segments[k + 1]

\* C16: the subtitle file has one block for each segment, in the order of
\* the segments, and block k, counted from 1, has the number k and the text
\* of segment k.
C16_SrtBlocksNumberedFromOne ==
    \A w \in Runs :
        worker[w].srt_file.written =>
            LET content == worker[w].srt_file.content
                segments == worker[w].segments
            IN  /\ Len(content) = Len(segments)
                /\ \A k \in 1..Len(segments) :
                      /\ content[k].kind = "block"
                      /\ content[k].number = k
                      /\ content[k].text = strip(segments[k].text)

\* A subtitle file was written for MaxExportSegments segments that differ
\* from their neighbours.
C16_SrtWrittenForLongTranscript ==
    \E w \in Runs :
        /\ worker[w].srt_file.written
        /\ Len(worker[w].srt_file.content) = MaxExportSegments
        /\ \A k \in 1..(MaxExportSegments - 1) :
              worker[w].segments[k] # worker[w].segments[k + 1]
\* The phase of a run at place pc: 0 idle, 1 preparing, 2 loading the model,
\* 3 analysing, 4 processing the results, 5 ended.
Phase(pc) ==
    CASE pc = "idle" -> 0
      [] pc = "prepare" -> 1
      [] pc \in {"check_cache", "load", "fallback", "retry"} -> 2
      [] pc = "transcribe" -> 3
      [] pc \in {"save_txt", "save_srt"} -> 4
      [] OTHER -> 5

\* The progress values run w has sent, in order.
ProgressSent(w) ==
    SelectSeq(worker[w].sent, LAMBDA m : m.type = "progress")

\* The error notifications run w has sent.
ErrorsSent(w) ==
    {k \in 1..Len(worker[w].sent) :
        worker[w].sent[k].type = "message" /\ worker[w].sent[k].icon = "error"}

\* C17: a run goes through its phases in order: a step keeps the phase,
\* enters the next one, or ends the run with an exception; a run that ended
\* without exception (Done) ended from the export, sent its completion and no
\* error, and its last progress is 100; one that ended with an exception
\* (Failed) sent an error and no completion; and a started run always ends.
C17_PhasesInOrderToTheEnd ==
    /\ [][\A w \in Runs :
            LET from == Phase(worker[w].pc)
                to == Phase(worker'[w].pc)
            IN  \/ to = from
                \/ to = from + 1 /\ (to = 5 => worker'[w].raised = "")
                \/ from \in 1..4 /\ to = 5 /\ worker'[w].raised # ""]_vars
    /\ [](\A w \in Runs :
            (InBody(w) /\ worker[w].pc = "finally") =>
                IF worker[w].raised = ""
                THEN /\ Cardinality(Completions(w)) = 1
                     /\ ErrorsSent(w) = {}
                     /\ ProgressSent(w)[Len(ProgressSent(w))].value = Percent(100)
                ELSE /\ Completions(w) = {}
                     /\ ErrorsSent(w) # {})
    /\ \A w \in Runs : (worker[w].pc = "prepare") ~> (worker[w].pc = "exited")

\* A run has ended without exception after a load that fell back to the CPU.
C17_DoneAfterFallback ==
    \E w \in Runs :
        /\ FellBack(w)
        /\ worker[w].pc = "finally"
        /\ worker[w].raised = ""
        /\ Len(worker[w].loads) = 2
\* The progress values run w has sent after the one of line 581.
AfterAnalysis(w) ==
    LET p == ProgressSent(w)
        k == CHOOSE k \in 1..Len(p) : p[k].value = Percent(20)
    IN  SubSeq(p, k + 1, Len(p))

\* C18: without progress callback, the progress sent after the analysis of
\* n segments is 90, then 90 + 10 * i / n for i = 1..n (and the 100 of the
\* completion): the values do not go down, stay within 90..100 and reach 100
\* at segment n; with n = 0 there is the 90 alone and the run goes on to the
\* export without exception.
C18_LoopProgressInterpolates ==
    \A w \in Runs :
        (/\ InBody(w)
         /\ Phase(worker[w].pc) >= 4
         /\ ~worker[w].supports_progress
         /\ worker[w].raised \in {"", "io_error"}) =>
            LET v == AfterAnalysis(w)
                n == Len(worker[w].segments)
                completed == worker[w].pc = "finally" /\ worker[w].raised = ""
            IN  /\ Len(v) = 1 + n + (IF completed THEN 1 ELSE 0)
                /\ v[1].value = Percent(90)
                /\ \A i \in 1..n : v[1 + i].value * n = Percent(90) * n + i * Percent(10)
                /\ \A k \in 1..(Len(v) - 1) : v[k].value <= v[k + 1].value
                /\ \A k \in 1..Len(v) :
                      v[k].value >= Percent(90) /\ v[k].value <= Percent(100)
                /\ n >= 1 => v[1 + n].value = Percent(100)
                /\ n = 0 => (worker[w].pc = "save_txt" => worker[w].raised = "")

\* A run without progress callback has sent the progress of each of
\* MaxExportSegments segments and is about to export.
C18_LoopOverLongTranscript ==
    \E w \in Runs :
        /\ worker[w].pc = "save_txt"
        /\ ~worker[w].supports_progress
        /\ Len(worker[w].segments) = MaxExportSegments
        /\ Len(AfterAnalysis(w)) = 1 + MaxExportSegments
\* C19: a run whose export raised IOError has sent the error notification of
\* the export, no completion notification at all and no progress 100 after
\* that error; and the run goes on to its end, where the controls are
\* enabled and the session is not left open.
C19_WriteFailureReportedAndCleanedUp ==
    /\ [](\A w \in Runs :
            (InBody(w) /\ worker[w].raised = "io_error") =>
                /\ Completions(w) = {}
                /\ \E k \in ErrorsSent(w) :
                      /\ worker[w].sent[k].text = "save_failed"
                      /\ \A j \in (k + 1)..Len(worker[w].sent) :
                            worker[w].sent[j] # ProgressMsg(Percent(100)))
    /\ (\E w \in Runs : worker[w].raised = "io_error")
          ~> (/\ Quiet
              /\ \A c \in DOMAIN controls : controls[c] = NORMAL
              /\ requests_session # "open")

\* The text file of a run was written and the write of its subtitle file
\* raised IOError.
C19_SubtitleWriteFailed ==
    \E w \in Runs :
        /\ InBody(w)
        /\ worker[w].raised = "io_error"
        /\ worker[w].txt_file.written
        /\ ~worker[w].srt_file.written
\* C20: a run that finds its key in the cache goes on to the analysis with
\* the cache and the session as they are, attempts no load, and analyses
\* with a model the cache holds under its key; a run that did not find its
\* key has attempted a load before it analyses or ends.
C20_CacheHitLoadsNothing ==
    /\ [][\A w \in Runs :
            (/\ worker[w].pc = "check_cache"
             /\ worker'[w].pc # "check_cache"
             /\ <<ModelSize, worker[w].device, worker[w].model_path>> \in model_cache) =>
                /\ worker'[w].pc = "transcribe"
                /\ worker'[w].hit
                /\ model_cache' = model_cache
                /\ requests_session' = requests_session]_vars
    /\ [](\A w \in Runs :
            InBody(w) =>
                /\ worker[w].hit => worker[w].loads = <<>>
                /\ (~worker[w].hit /\ Phase(worker[w].pc) >= 3) => worker[w].loads # <<>>
                /\ worker[w].pc = "transcribe" => worker[w].model_key \in model_cache)

\* A second run has found its key in the cache and is at the analysis.
C20_SecondRunHitsCache ==
    /\ runs = 2
    /\ InBody(2)
    /\ worker[2].hit
    /\ worker[2].pc = "transcribe"
    /\ worker[2].loads = <<>>
\* C21: the session a download is given is open: every load of a run
\* without model path was handed a session that is open, never one that the
\* finally block of an earlier run has closed.
C21_DownloadSessionOpen ==
    \A w \in Runs :
        (InBody(w) /\ worker[w].model_path = NoPath) =>
            \A k \in 1..Len(worker[w].loads) : worker[w].loads[k].session = "open"
C23_OneErrorNotification ==
    \A w \in Runs :
        (InBody(w) /\ worker[w].raised # "") => Cardinality(ErrorsSent(w)) = 1
\* C24: the progress values a run sends never go down and none is above
\* 100, with the progress callback and without it.
C24_ProgressNeverDecreases ==
    \A w \in Runs :
        InBody(w) =>
            LET p == ProgressSent(w)
            IN  /\ \A k \in 1..(Len(p) - 1) : p[k].value <= p[k + 1].value
                /\ \A k \in 1..Len(p) : p[k].value <= Percent(100)
\* C25: with no run active, the model size selector is enabled exactly when
\* the model path is empty.
C25_ModelSizeFollowsPath ==
    Quiet => (controls["model_size"] = NORMAL <=> model_path = NoPath)
\* C26: the cache gets an entry only from a load that succeeded, under the
\* key of the device the model was loaded on: a step in which run w attempts
\* a load adds the key of that load's device when the load succeeded and
\* nothing when it failed, and no other step changes the cache.
C26_CacheEntriesAreLoadedModels ==
    /\ [][\A w \in Runs :
            Len(worker'[w].loads) > Len(worker[w].loads) =>
                LET load == worker'[w].loads[Len(worker'[w].loads)]
                IN  model_cache' =
                        IF load.outcome = "loaded"
                        THEN model_cache \union
                                {<<ModelSize, load.device, worker[w].model_path>>}
                        ELSE model_cache]_vars
    /\ [][model_cache' # model_cache =>
            \E w \in Runs : Len(worker'[w].loads) > Len(worker[w].loads)]_vars

\* The load of a run on the GPU failed for the driver, the retry on the CPU
\* succeeded, and the cache holds the CPU key and not the GPU key.
C26_FallbackStoredUnderCpuKey ==
    \E w \in Runs :
        /\ FellBack(w)
        /\ Len(worker[w].loads) = 2
        /\ worker[w].loads[1].device = "cuda"
        /\ worker[w].loads[2].outcome = "loaded"
        /\ <<ModelSize, "cpu", worker[w].model_path>> \in model_cache
        /\ <<ModelSize, "cuda", worker[w].model_path>> \notin model_cache
====
